---- MODULE Spec2Model ----
(***************************************************************************)
(* Aura Farm Image Transformer (src/app.py).                               *)
(*                                                                         *)
(* Three specifications over one set of variables:                         *)
(*   SpecTracker  track_visitor() called by one session at a time          *)
(*   SpecRace     track_visitor() run by several sessions' script threads, *)
(*                interleaved at its accesses to visitor_data.json         *)
(*   SpecPage     main_page(): gate, transformation call, display,         *)
(*                per-image fetch, zip archive, download button            *)
(***************************************************************************)
EXTENDS Integers, Sequences, FiniteSets, TLC

\* ---------------------------------------------------------------- bounds
NSess == 2      \* browser sessions (each owns one st.session_state)
MaxDay == 2     \* calendar days the clock passes through
MaxCalls == 2   \* script runs (track_visitor calls) per session, one at a time
RaceCalls == 1  \* script runs per session when the sessions run concurrently

\* ------------------------------------------------------- program constants
UuidLen == 36   \* len(str(uuid.uuid4()))
DateLen == 10   \* len(strftime("%Y-%m-%d"))

Sess == 1..NSess

VARIABLES
    store,       \* visitor_data.json: [kind, data, size]
    session_id,  \* st.session_state.session_id per session, 0 = not set
    today,       \* the day datetime.now() falls on
    calls,       \* ghost: track_visitor calls each session has finished
    outcome,     \* ghost: how the last finished call ended
    before,      \* ghost: the store as the last finished call loaded it
    origin,      \* ghost: the kind of store the run started from
    pc,          \* SpecRace: where each session's running call stands
    visitor_data, \* SpecRace: each running call's local visitor_data
    inp,         \* SpecPage: main_page's arguments in the current script run
    ppc,         \* SpecPage: where the run stands: idle, transform, fetch, done
    transformed_images, \* st.session_state.transformed_images, <<>> = not set
    all_images,  \* st.session_state.all_images, <<>> = not set
    requests,    \* images.edit requests issued in this run
    urls,        \* transformed_image_urls
    displayed,   \* URLs given to st.image in this run
    fetched,     \* URLs given to requests.get in this run
    zip,         \* entries written to the archive
    errors,      \* st.error messages of this run
    warnings,    \* st.warning messages of this run
    download,    \* the st.download_button of this run
    service,     \* ghost: how the images.edit call ended
    response,    \* ghost: response.data of the images.edit call
    statuses     \* ghost: how each requests.get ended

tvars == <<store, session_id, today, calls, outcome, before, origin, pc, visitor_data>>
pvars == <<inp, ppc, transformed_images, all_images, requests, urls, displayed,
           fetched, zip, errors, warnings, download, service, response, statuses>>
vars == <<tvars, pvars>>

\* ------------------------------------------------------------ the document
EmptyDict == [d \in {} |-> 0]

\* {"total_count": 0, "daily_counts": {}, "sessions": []}
EmptyData == [total_count |-> 0, daily_counts |-> EmptyDict, sessions |-> <<>>]

Range(q) == {q[i] : i \in 1..Len(q)}

RECURSIVE SumCounts(_)
SumCounts(m) ==
    IF DOMAIN m = {} THEN 0
    ELSE LET d == CHOOSE x \in DOMAIN m : TRUE
         IN m[d] + SumCounts([x \in DOMAIN m \ {d} |-> m[x]])

Digits(n) == IF n < 10 THEN 1 ELSE IF n < 100 THEN 2 ELSE 3

\* Bytes json.dump writes for a document:
\*   {"total_count": T, "daily_counts": {"YYYY-MM-DD": c, ...}, "sessions": ["<uuid>", ...]}
DocLen(data) ==
    LET nd == Cardinality(DOMAIN data.daily_counts)
        ns == Len(data.sessions)
    IN 53 + Digits(data.total_count)
       + SumCounts([d \in DOMAIN data.daily_counts |->
                       DateLen + 4 + Digits(data.daily_counts[d])])
       + (IF nd > 1 THEN 2 * (nd - 1) ELSE 0)
       + ns * (UuidLen + 2)
       + (IF ns > 1 THEN 2 * (ns - 1) ELSE 0)

\* ---------------------------------------------------------------- the file
\* kind: "missing"      no file
\*       "unparseable"  text json.load rejects with JSONDecodeError (an empty
\*                      file, a document followed by the tail of a longer one)
\*       "undecodable"  bytes that are not text in the locale's encoding
\*       "malformed"    valid JSON without the "sessions" key, such as {}
\*       "doc"          a JSON object with the three keys
Missing == [kind |-> "missing", data |-> EmptyData, size |-> 0]
EmptyFile == [kind |-> "unparseable", data |-> EmptyData, size |-> 0]
BinaryFile == [kind |-> "undecodable", data |-> EmptyData, size |-> 1]
BareObject == [kind |-> "malformed", data |-> EmptyData, size |-> 2]
DocFile(data) == [kind |-> "doc", data |-> data, size |-> DocLen(data)]

InitialStores == {Missing, EmptyFile, BinaryFile, BareObject, DocFile(EmptyData)}

\* Mutant: the file is never read, every call starts from the empty structure.
LoadStoreFresh(st) == [raised |-> FALSE, keyed |-> TRUE, data |-> EmptyData]

\* lines 36-43: os.path.exists, open, json.load; only JSONDecodeError is caught.
LoadStore(st) ==
    CASE st.kind = "missing"     -> [raised |-> FALSE, keyed |-> TRUE, data |-> EmptyData]
      [] st.kind = "unparseable" -> [raised |-> FALSE, keyed |-> TRUE, data |-> EmptyData]
      [] st.kind = "undecodable" -> [raised |-> TRUE, keyed |-> FALSE, data |-> EmptyData]
      [] st.kind = "malformed"   -> [raised |-> FALSE, keyed |-> FALSE, data |-> EmptyData]
      [] OTHER                   -> [raised |-> FALSE, keyed |-> TRUE, data |-> st.data]

\* lines 46-50: the session keeps its identifier; uuid4 gives a fresh one.
SessionId(ids, s) == IF ids[s] = 0 THEN s ELSE ids[s]

\* Mutant: the membership test is dropped.
IsNewSessionAlways(data, sid) == TRUE

\* line 54
IsNewSession(data, sid) == sid \notin Range(data.sessions)

\* Mutant: today's entry is set to 1 instead of incremented.
BumpDayReset(counts, day) ==
    [d \in DOMAIN counts \cup {day} |-> IF d = day THEN 1 ELSE counts[d]]

\* lines 59-62
BumpDay(counts, day) ==
    [d \in DOMAIN counts \cup {day} |->
        IF d = day THEN (IF day \in DOMAIN counts THEN counts[day] + 1 ELSE 1)
        ELSE counts[d]]

\* Mutant: total_count is set from the grown list and then incremented.
RecordVisitCountedTwice(data, sid, day) ==
    [total_count  |-> Len(data.sessions) + 2,
     daily_counts |-> BumpDay(data.daily_counts, day),
     sessions     |-> Append(data.sessions, sid)]

\* Mutant: the daily count is not updated.
RecordVisitNoDaily(data, sid, day) ==
    [total_count  |-> data.total_count + 1,
     daily_counts |-> data.daily_counts,
     sessions     |-> Append(data.sessions, sid)]

\* lines 55-62
RecordVisit(data, sid, day) ==
    [total_count  |-> data.total_count + 1,
     daily_counts |-> BumpDay(data.daily_counts, day),
     sessions     |-> Append(data.sessions, sid)]

\* line 65: open(..., "w") creates or truncates the file.
Truncate(st) == EmptyFile

\* line 66 and the close of the with block: the buffered text is written at
\* offset 0 of this handle; bytes another handle wrote beyond it stay.
WriteDoc(st, data) ==
    IF DocLen(data) >= st.size THEN DocFile(data)
    ELSE [kind |-> "unparseable", data |-> EmptyData, size |-> st.size]

NoCall == [kind |-> "none", sid |-> 0, ret |-> 0, wrote |-> FALSE, day |-> 0]

\* track_visitor, lines 30-68, run to completion.
TrackVisitor(s) ==
    LET ld  == LoadStore(store)
        sid == SessionId(session_id, s)
        new == RecordVisit(ld.data, sid, today)
    IN /\ calls[s] < MaxCalls
       /\ calls' = [calls EXCEPT ![s] = @ + 1]
       /\ before' = store
       /\ UNCHANGED <<today, origin, pc, visitor_data, pvars>>
       /\ IF ld.raised
          THEN /\ outcome' = [kind |-> "raised", sid |-> 0, ret |-> 0,
                              wrote |-> FALSE, day |-> today]
               /\ UNCHANGED <<store, session_id>>
          ELSE /\ session_id' = [session_id EXCEPT ![s] = sid]
               /\ IF ~ld.keyed
                  THEN /\ outcome' = [kind |-> "raised", sid |-> sid, ret |-> 0,
                                      wrote |-> FALSE, day |-> today]
                       /\ UNCHANGED store
                  ELSE IF IsNewSession(ld.data, sid)
                  THEN /\ store' = WriteDoc(Truncate(store), new)
                       /\ outcome' = [kind |-> "returned", sid |-> sid,
                                      ret |-> new.total_count,
                                      wrote |-> TRUE, day |-> today]
                  ELSE /\ UNCHANGED store
                       /\ outcome' = [kind |-> "returned", sid |-> sid,
                                      ret |-> ld.data.total_count,
                                      wrote |-> FALSE, day |-> today]

\* line 51: the date datetime.now() reports moves on.
NextDay ==
    /\ today < MaxDay
    /\ today' = today + 1
    /\ UNCHANGED <<store, session_id, calls, outcome, before, origin, pc, visitor_data, pvars>>

TrackerNext == (\E s \in Sess : TrackVisitor(s)) \/ NextDay

\* ------------------------------------------------- track_visitor, interleaved
\* Each session's script runs in a thread of its own and nothing serialises
\* them. A call touches the file three times: the read (line 39), the
\* truncation by open(..., "w") (line 65) and the write when the with block
\* closes the handle (line 66); the threads interleave between these.

\* lines 36-62: load, session id, date, membership test, update of the local copy.
BeginVisit(s) ==
    LET ld  == LoadStore(store)
        sid == SessionId(session_id, s)
    IN /\ pc[s] = "idle"
       /\ calls[s] < RaceCalls
       /\ UNCHANGED <<store, today, origin, before, pvars>>
       /\ IF ld.raised
          THEN /\ calls' = [calls EXCEPT ![s] = @ + 1]
               /\ outcome' = [kind |-> "raised", sid |-> 0, ret |-> 0,
                              wrote |-> FALSE, day |-> today]
               /\ UNCHANGED <<session_id, pc, visitor_data>>
          ELSE /\ session_id' = [session_id EXCEPT ![s] = sid]
               /\ IF ~ld.keyed
                  THEN /\ calls' = [calls EXCEPT ![s] = @ + 1]
                       /\ outcome' = [kind |-> "raised", sid |-> sid, ret |-> 0,
                                      wrote |-> FALSE, day |-> today]
                       /\ UNCHANGED <<pc, visitor_data>>
                  ELSE IF IsNewSession(ld.data, sid)
                  THEN /\ visitor_data' = [visitor_data EXCEPT
                                             ![s] = RecordVisit(ld.data, sid, today)]
                       /\ pc' = [pc EXCEPT ![s] = "open"]
                       /\ UNCHANGED <<calls, outcome>>
                  ELSE /\ calls' = [calls EXCEPT ![s] = @ + 1]
                       /\ outcome' = [kind |-> "returned", sid |-> sid,
                                      ret |-> ld.data.total_count,
                                      wrote |-> FALSE, day |-> today]
                       /\ UNCHANGED <<pc, visitor_data>>

\* line 65
OpenForWrite(s) ==
    /\ pc[s] = "open"
    /\ store' = Truncate(store)
    /\ pc' = [pc EXCEPT ![s] = "dump"]
    /\ UNCHANGED <<session_id, today, calls, outcome, before, origin, visitor_data, pvars>>

\* lines 66-68
DumpAndReturn(s) ==
    /\ pc[s] = "dump"
    /\ store' = WriteDoc(store, visitor_data[s])
    /\ pc' = [pc EXCEPT ![s] = "idle"]
    /\ calls' = [calls EXCEPT ![s] = @ + 1]
    /\ outcome' = [kind |-> "returned", sid |-> session_id[s],
                   ret |-> visitor_data[s].total_count,
                   wrote |-> TRUE, day |-> today]
    /\ UNCHANGED <<session_id, today, before, origin, visitor_data, pvars>>

RaceNext ==
    \/ \E s \in Sess : BeginVisit(s)
    \/ \E s \in Sess : OpenForWrite(s)
    \/ \E s \in Sess : DumpAndReturn(s)
    \/ NextDay

\* ------------------------------------------------------------ the main page
MaxImages == 4  \* the slider's max_value

Styles == {"Ghibli", "Minecraft", "Chicken-Jockey", "Humanize"}
Sizes == {"1024x1024", "512x512", "256x256"}
ApiKeys == {"", "sk-key"}
NoFile == "None"
Uploads == {NoFile, "image.png"}
Urls == {"https://img/a", "https://img/b"}

\* lines 105-112
get_prompt_for_transformation(style_type) ==
    CASE style_type = "Ghibli" ->
           "Transform this image into Studio Ghibli animation style with vibrant colors, whimsical elements, and a dreamy atmosphere."
      [] style_type = "Minecraft" ->
           "Transform this image into Minecraft style with blocky pixelated texture, bright colors, and cubic shapes."
      [] style_type = "Chicken-Jockey" ->
           "Transform this image into a blocky Minecraft-style character cool green zombie riding a chicken."
      [] style_type = "Humanize" ->
           "Transform this image into a realistic human-like representation with natural proportions, detailed features, and lifelike textures."
      [] OTHER -> "Transform this image in a creative way."

\* str.lower() on the style names
Lower(style) ==
    CASE style = "Ghibli" -> "ghibli"
      [] style = "Minecraft" -> "minecraft"
      [] style = "Chicken-Jockey" -> "chicken-jockey"
      [] style = "Humanize" -> "humanize"
      [] OTHER -> style

\* Mutant: the API key is not tested.
GateNoKey(submitted, uploaded_file, api_key) ==
    submitted /\ uploaded_file # NoFile

\* line 233
Gate(submitted, uploaded_file, api_key) ==
    submitted /\ uploaded_file # NoFile /\ api_key # ""

\* lines 317-320, reached when the gate is closed
GateWarnings(submitted, uploaded_file, api_key) ==
    IF submitted /\ uploaded_file = NoFile
    THEN <<"Please upload an image to transform.">>
    ELSE IF submitted /\ api_key = ""
    THEN <<"Please provide your OpenAI API key.">>
    ELSE <<>>

\* lines 200-206
EditRequest(api_key, image_data, style, num_images, size) ==
    [api_key |-> api_key, model |-> "gpt-4o", image |-> image_data,
     prompt |-> get_prompt_for_transformation(style), n |-> num_images, size |-> size]

\* Mutant: the URLs are collected in reverse.
ExtractUrlsReversed(data) == [i \in 1..Len(data) |-> data[Len(data) + 1 - i].url]

\* line 209
ExtractUrls(data) == [i \in 1..Len(data) |-> data[i].url]

\* What images.edit(n=num_images) does: it raises, or answers with a list of
\* at most n items (fewer when a generation fails upstream).
Item(u) == [url |-> u, b64_json |-> "None"]
Answers(n) == UNION {[1..k -> {Item(u) : u \in Urls}] : k \in 0..n}
ServiceOutcomes(n) ==
    {[raised |-> TRUE, data |-> <<>>]} \cup {[raised |-> FALSE, data |-> a] : a \in Answers(n)}

\* lines 196-214: the URLs of the answer, or st.error and [] on any exception.
transform_image_with_openai(result) ==
    IF result.raised
    THEN [urls |-> <<>>, errors |-> <<[kind |-> "transforming", item |-> 0, code |-> 0]>>]
    ELSE [urls |-> ExtractUrls(result.data), errors |-> <<>>]

\* Mutant: "is not None" instead of truthiness.
HasResultsNotNone(image_urls) == TRUE

\* line 251: a non-empty list
HasResults(image_urls) == image_urls # <<>>

\* line 297, i the 0-based index of enumerate
EntryName(style, i) == <<Lower(style), "_transform_", i + 1, ".png">>

\* line 308
ArchiveName(style) == <<"aura_farm_", Lower(style), "_transformations.zip">>

\* What requests.get does: it raises (no connection, a timeout) or answers
\* with a status code.
FetchOutcomes ==
    {[raised |-> FALSE, status |-> 200], [raised |-> FALSE, status |-> 404],
     [raised |-> TRUE, status |-> 0]}

NoInput == [submitted |-> FALSE, api_key |-> "", style |-> "Ghibli", num_images |-> 1,
            image_size |-> "1024x1024", uploaded_file |-> NoFile]
Inputs == [submitted : BOOLEAN, api_key : ApiKeys, style : Styles,
           num_images : 1..MaxImages, image_size : Sizes, uploaded_file : Uploads]
NoButton == [shown |-> FALSE, data |-> <<>>, file_name |-> <<>>]

\* The state before the first script run, the file being one of `stores`.
Start(stores) ==
    /\ store \in stores
    /\ origin = store
    /\ session_id = [s \in Sess |-> 0]
    /\ today = 1
    /\ calls = [s \in Sess |-> 0]
    /\ outcome = NoCall
    /\ before = store
    /\ pc = [s \in Sess |-> "idle"]
    /\ visitor_data = [s \in Sess |-> EmptyData]
    /\ inp = NoInput
    /\ ppc = "idle"
    /\ transformed_images = <<>>
    /\ all_images = <<>>
    /\ requests = <<>>
    /\ urls = <<>>
    /\ displayed = <<>>
    /\ fetched = <<>>
    /\ zip = <<>>
    /\ errors = <<>>
    /\ warnings = <<>>
    /\ download = NoButton
    /\ service = "none"
    /\ response = <<>>
    /\ statuses = <<>>

\* lines 304-311
Offer(entries, style) ==
    [shown |-> TRUE, data |-> entries, file_name |-> ArchiveName(style)]

\* A script run enters main_page (lines 216-233, 317-320): the page is
\* rendered anew, the gate is evaluated.
EnterPage(i) ==
    /\ ppc \in {"idle", "done"}
    /\ inp' = i
    /\ requests' = <<>>
    /\ urls' = <<>>
    /\ displayed' = <<>>
    /\ fetched' = <<>>
    /\ statuses' = <<>>
    /\ zip' = <<>>
    /\ errors' = <<>>
    /\ download' = NoButton
    /\ service' = "none"
    /\ response' = <<>>
    /\ IF Gate(i.submitted, i.uploaded_file, i.api_key)
       THEN /\ ppc' = "transform"
            /\ warnings' = <<>>
       ELSE /\ ppc' = "done"
            /\ warnings' = GateWarnings(i.submitted, i.uploaded_file, i.api_key)
    /\ UNCHANGED <<transformed_images, all_images, tvars>>

\* lines 240-291 and 313: the call, the cache, the display loop, the empty zip.
Transform(result) ==
    LET r == transform_image_with_openai(result)
    IN /\ ppc = "transform"
       /\ result \in ServiceOutcomes(inp.num_images)
       /\ requests' = Append(requests, EditRequest(inp.api_key, inp.uploaded_file,
                                 inp.style, inp.num_images, inp.image_size))
       /\ service' = IF result.raised THEN "raised" ELSE "answered"
       /\ response' = result.data
       /\ urls' = r.urls
       /\ errors' = errors \o r.errors
       /\ IF HasResults(r.urls)
          THEN /\ transformed_images' = r.urls
               /\ displayed' = r.urls
               /\ all_images' = r.urls
               /\ IF Len(r.urls) = 0
                  THEN /\ download' = Offer(zip, inp.style)
                       /\ ppc' = "done"
                  ELSE /\ ppc' = "fetch"
                       /\ UNCHANGED download
          ELSE /\ ppc' = "done"
               /\ UNCHANGED <<transformed_images, displayed, all_images, download>>
       /\ UNCHANGED <<inp, fetched, statuses, zip, warnings, tvars>>

\* lines 292-302, one turn of the loop; after the last turn lines 305-313;
\* an exception of requests.get leaves the loop for line 316.
Fetch(got) ==
    LET i == Len(fetched)
        image_url == all_images[i + 1]
        entries == IF ~got.raised /\ got.status = 200
                   THEN Append(zip, [name |-> EntryName(inp.style, i), data |-> image_url])
                   ELSE zip
    IN /\ ppc = "fetch"
       /\ i < Len(all_images)
       /\ fetched' = Append(fetched, image_url)
       /\ statuses' = Append(statuses, got)
       /\ zip' = entries
       /\ IF got.raised
          THEN /\ errors' = Append(errors, [kind |-> "transformation", item |-> 0, code |-> 0])
               /\ ppc' = "done"
               /\ UNCHANGED download
          ELSE /\ errors' = IF got.status = 200 THEN errors
                            ELSE Append(errors, [kind |-> "fetch", item |-> i + 1,
                                                 code |-> got.status])
               /\ IF i + 1 = Len(all_images)
                  THEN /\ download' = Offer(entries, inp.style)
                       /\ ppc' = "done"
                  ELSE UNCHANGED <<download, ppc>>
       /\ UNCHANGED <<inp, transformed_images, all_images, requests, urls, displayed,
                      warnings, service, response, tvars>>

PageNext ==
    \/ \E i \in Inputs : EnterPage(i)
    \/ \E result \in ServiceOutcomes(MaxImages) : Transform(result)
    \/ \E got \in FetchOutcomes : Fetch(got)

\* --------------------------------------------------------- specifications
\* The tracker and the page share no state: session_state.session_id belongs
\* to the tracker, transformed_images and all_images to the page.
Init == Start(InitialStores)

InitPage == Start({Missing})

SpecTracker == Init /\ [][TrackerNext]_vars

SpecRace == Init /\ [][RaceNext]_vars

SpecPage == InitPage /\ [][PageNext]_vars

\* ------------------------------------------------------------------ claims
Presented == {s \in Sess : calls[s] >= 1}
PresentedIds == {session_id[s] : s \in {x \in Sess : session_id[x] # 0}}
StartedEmpty == origin.kind \in {"missing", "unparseable", "doc"}
NoDup(q) == \A i, j \in 1..Len(q) : q[i] = q[j] => i = j

\* C1: from an empty or missing store, once N >= 1 distinct sessions have each
\* called track_visitor once, one call at a time, the file holds total_count = N
\* and sessions holds exactly those N identifiers.
C1_DistinctSessionsCounted ==
    (StartedEmpty /\ Presented # {} /\ \A s \in Sess : calls[s] <= 1)
    => /\ store.kind = "doc"
       /\ store.data.total_count = Cardinality(Presented)
       /\ Len(store.data.sessions) = Cardinality(Presented)
       /\ Range(store.data.sessions) = {session_id[s] : s \in Presented}

C1_Witness ==
    /\ StartedEmpty
    /\ \A s \in Sess : calls[s] <= 1
    /\ Cardinality(Presented) = 2
    /\ store.kind = "doc"
    /\ store.data.total_count = 2

\* C2: a call whose session identifier is already in the stored sessions
\* leaves the file as it was, writes nothing and returns the stored
\* total_count, also on a later day than the first call.
C2_RepeatLeavesStore ==
    (/\ outcome.kind # "none"
     /\ before.kind = "doc"
     /\ outcome.sid \in Range(before.data.sessions))
    => /\ outcome.kind = "returned"
       /\ store = before
       /\ ~outcome.wrote
       /\ outcome.ret = before.data.total_count

C2_Witness ==
    /\ outcome.kind = "returned"
    /\ before.kind = "doc"
    /\ outcome.sid \in Range(before.data.sessions)
    /\ outcome.day \notin DOMAIN before.data.daily_counts
    /\ store = before

\* C3: after any calls on any days, started from an empty, missing or
\* unparseable store, the stored document has total_count equal to the sum of
\* daily_counts and to the number of identifiers in sessions.
C3_TotalsAgree ==
    (StartedEmpty /\ store.kind = "doc")
    => /\ store.data.total_count = SumCounts(store.data.daily_counts)
       /\ store.data.total_count = Cardinality(Range(store.data.sessions))

C3_Witness ==
    /\ origin.kind = "unparseable"
    /\ store.kind = "doc"
    /\ Cardinality(DOMAIN store.data.daily_counts) = 2
    /\ store.data.total_count = 2
    /\ \E s \in Sess : calls[s] = 2

\* C4: on a missing or corrupt store (one that cannot be used as a VisitorData
\* document) track_visitor does not raise: a call with a new session returns
\* 1 and leaves a document holding only that session.
C4_CorruptStoreRecovered ==
    (/\ outcome.kind # "none"
     /\ before.kind \in {"missing", "unparseable", "undecodable", "malformed"})
    => /\ outcome.kind = "returned"
       /\ outcome.ret = 1
       /\ store = DocFile(RecordVisit(EmptyData, outcome.sid, outcome.day))

\* C5: with calls of distinct new sessions interleaved, an update can be
\* lost (C5_Witness: every call has returned and the file counts fewer sessions
\* than were presented); the race only loses sessions, it never counts more
\* than were presented nor stores an identifier no session holds.
C5_RaceOnlyLoses ==
    store.kind = "doc"
    => /\ Range(store.data.sessions) \subseteq PresentedIds
       /\ store.data.total_count <= Cardinality(PresentedIds)

C5_Witness ==
    /\ \A s \in Sess : pc[s] = "idle"
    /\ \E a, b \in Sess :
          /\ a # b
          /\ calls[a] = 1 /\ calls[b] = 1
          /\ session_id[a] # 0 /\ session_id[b] # 0
    /\ \A s \in Sess : calls[s] <= 1
    /\ store.kind = "doc"
    /\ store.data.total_count < Cardinality(Presented)
    /\ Len(store.data.sessions) < Cardinality(Presented)

\* C10: under every interleaving, each document in the file, and each one a
\* call is about to write, is consistent: total_count is the length of
\* sessions and the sum of daily_counts, and no identifier is stored twice.
Consistent(data) ==
    /\ data.total_count = Len(data.sessions)
    /\ data.total_count = SumCounts(data.daily_counts)
    /\ NoDup(data.sessions)

C10_WrittenDocsConsistent ==
    /\ store.kind = "doc" => Consistent(store.data)
    /\ \A s \in Sess : pc[s] # "idle" => Consistent(visitor_data[s])

C10_Witness ==
    /\ store.kind = "doc"
    /\ Consistent(store.data)
    /\ \E s \in Sess :
          /\ outcome.kind = "returned" /\ outcome.wrote
          /\ session_id[s] # 0
          /\ calls[s] >= 1
          /\ pc[s] = "idle"
          /\ session_id[s] \notin Range(store.data.sessions)

\* The archive and the per-item errors the fetch outcomes call for: an entry
\* named by the original 1-based position for each status 200, an error for
\* each other fetch.
RECURSIVE WantedEntries(_)
WantedEntries(k) ==
    IF k = 0 THEN <<>>
    ELSE IF ~statuses[k].raised /\ statuses[k].status = 200
         THEN Append(WantedEntries(k - 1),
                     [name |-> <<Lower(inp.style), "_transform_", k, ".png">>,
                      data |-> urls[k]])
         ELSE WantedEntries(k - 1)

RECURSIVE WantedErrors(_)
WantedErrors(k) ==
    IF k = 0 THEN <<>>
    ELSE IF ~statuses[k].raised /\ statuses[k].status = 200
         THEN WantedErrors(k - 1)
         ELSE Append(WantedErrors(k - 1),
                     [kind |-> "fetch", item |-> k, code |-> statuses[k].status])

NoFetchRaised == \A k \in 1..Len(statuses) : ~statuses[k].raised

\* C6: whatever the fetches do, packaging never aborts: every URL is fetched,
\* the archive holds one entry per status-200 fetch under its original
\* 1-based index, each failed fetch is a per-item error, and the archive is
\* offered, also when it has no entry.
C6_PackagingNeverAborts ==
    (ppc = "done" /\ service = "answered" /\ urls # <<>>)
    => /\ Len(statuses) = Len(urls)
       /\ download.shown
       /\ download.data = WantedEntries(Len(urls))
       /\ errors = WantedErrors(Len(urls))

\* What holds of packaging: the above whenever every requests.get returned a
\* response, whatever its status.
PackagingByStatus ==
    (ppc = "done" /\ service = "answered" /\ urls # <<>> /\ NoFetchRaised)
    => /\ Len(statuses) = Len(urls)
       /\ download.shown
       /\ download.data = WantedEntries(Len(urls))
       /\ errors = WantedErrors(Len(urls))

\* C7: when the images.edit call raises, the step that makes the call ends
\* the run with one error shown, an empty URL list, nothing displayed, no
\* fetch, no archive, no download button, and the session's cached URLs as
\* they were.
C7_ServiceErrorHalts ==
    [][(ppc = "transform" /\ service' = "raised")
       => /\ ppc' = "done"
          /\ urls' = <<>>
          /\ errors' = <<[kind |-> "transforming", item |-> 0, code |-> 0]>>
          /\ displayed' = <<>>
          /\ fetched' = <<>>
          /\ zip' = <<>>
          /\ ~download'.shown
          /\ transformed_images' = transformed_images
          /\ all_images' = all_images]_vars

C7_Witness ==
    /\ ppc = "done"
    /\ service = "raised"
    /\ Len(requests) = 1
    /\ errors # <<>>
    /\ transformed_images # <<>>
    /\ fetched = <<>>
    /\ ~download.shown

\* C8: the transformation call, the fetches and the download button occur
\* only in a run that was submitted with an image and a non-empty API key; a
\* submission without an image or without a key ends with a warning and no
\* request.
PipelineTouched ==
    \/ ppc \in {"transform", "fetch"}
    \/ service # "none"
    \/ requests # <<>>
    \/ fetched # <<>>
    \/ zip # <<>>
    \/ download.shown

C8_GateGuardsPipeline ==
    /\ PipelineTouched
       => (inp.submitted /\ inp.uploaded_file # NoFile /\ inp.api_key # "")
    /\ (ppc = "done" /\ inp.submitted /\ (inp.uploaded_file = NoFile \/ inp.api_key = ""))
       => (Len(warnings) = 1 /\ ~PipelineTouched)

C8_Witness ==
    /\ ppc = "done"
    /\ inp.submitted
    /\ inp.uploaded_file # NoFile
    /\ inp.api_key = ""
    /\ warnings = <<"Please provide your OpenAI API key.">>
    /\ ~PipelineTouched
    /\ transformed_images # <<>>

\* C9: when images.edit answers, exactly one request was issued, the returned
\* list has one URL per item of the answer in the answer's order, and that
\* list is displayed and fetched in that order (every URL of it unless a
\* fetch raises).
IsPrefix(p, q) == Len(p) <= Len(q) /\ \A k \in 1..Len(p) : p[k] = q[k]

C9_UrlsInResponseOrder ==
    service = "answered"
    => /\ Len(requests) = 1
       /\ requests[1].n = inp.num_images
       /\ Len(urls) = Len(response)
       /\ \A k \in 1..Len(response) : urls[k] = response[k].url
       /\ urls # <<>> => (displayed = urls /\ transformed_images = urls)
       /\ IsPrefix(fetched, urls)
       /\ (ppc = "done" /\ urls # <<>> /\ NoFetchRaised) => fetched = urls

C9_Witness ==
    /\ service = "answered"
    /\ ppc = "done"
    /\ inp.num_images = 4
    /\ Len(response) = 4
    /\ response[1].url # response[2].url
    /\ Len(urls) = 4
    /\ fetched = urls
    /\ displayed = urls

====
